---- MODULE Spec2Model ----
(***************************************************************************)
(* Model of the page script src/src/index.js: the throttle, the section    *)
(* locator, the scroll animator, the selection state and the event         *)
(* handlers that wire them together.                                       *)
(*                                                                         *)
(* The handlers are single-threaded callbacks that run to completion, so   *)
(* each one is a function from the program state (a record) to the         *)
(* program state, and each action applies one handler to the current       *)
(* state.  Lengths are in CSS pixels.                                      *)
(***************************************************************************)
EXTENDS Integers, Sequences, FiniteSets, TLC

\* ------------------------------------------------------------------ bounds

\* Number of sections (and of linkers) of the page.
N == 3
\* Height of one section: sections[i].offsetTop = i * SectionHeight.
SectionHeight == 60
\* Half of window.innerHeight.
HalfHeight == 40
\* The history counter of wrapper invocations saturates here.
MaxCalls == 2
\* How often the user scrolls in the specification with fairness.
MaxUserScrolls == 2
\* The locator's inputs: layouts of 1 .. MaxSections sections with tops in
\* 0 .. MaxTop, offsets in 0 .. MaxOffset, partial heights in 0 .. MaxPartial.
MaxSections == 3
MaxTop == 3
MaxOffset == 4
MaxPartial == 2
\* window.pageYOffset is negative while the page overscrolls at its top
\* (elastic scrolling): the locator's offsets start at -MaxOverscroll.
MaxOverscroll == 1
\* Number of images of the page.
MaxImages == 1
\* Number of images and emojis of the page of the later revision.
MaxLikes == 2

\* ------------------------------------------------------- program constants

\* let lastOffsetY; (and any other variable without a value)
undefined == -1
\* document.documentElement.clientTop
clientTop == 0
\* the per-frame step cap of scroller
maxStep == 49
\* eventKeyCodes: the left and the right key
keyLeft == 37
keyRight == 39
\* a key that eventKeyCodes does not map
keyOther == 13
\* const thinScreenThreshold
thinScreenThreshold == 560
\* const localStoragePrefix
localStoragePrefix == "jkg-dot-com-images:"

Min(a, b) == IF a < b THEN a ELSE b
Max(a, b) == IF a > b THEN a ELSE b

Indices == 0 .. (N - 1)

\* sections[i].offsetTop, as a sequence (index i is element i + 1)
SectionTops == [i \in 1 .. N |-> (i - 1) * SectionHeight]

\* sections[i].id
sectionId(i) == <<"section", i>>

\* The largest pageYOffset the document allows.
MaxScroll == Max(0, N * SectionHeight - 2 * HalfHeight)

\* The user scrolls to the top, the middle or the bottom of the document.
UserStops == {0, MaxScroll \div 2, MaxScroll}

VARIABLES
    loaded,             \* onLoad has run: its listeners are registered
    selectedSection,    \* let selectedSection
    linkers,            \* linkers[i].className
    sections,           \* sections[i].className
    locationHash,       \* the URL fragment
    scrollListener,     \* onScroll is a scroll listener of the window
    addedScrollEvents,  \* let addedScrollEvents
    running,            \* throttleSync's flag of onScroll
    timeouts,           \* pending setTimeout callbacks of the throttle
    initTimer,          \* onLoad's initialFadeInDelay timeout is pending
    scrolling,          \* scrollToSection's flag
    element,            \* index of the section the running scroller targets
    lastOffsetY,        \* the scroller's stall sample
    frames,             \* scheduled requestAnimationFrame(scroller) callbacks
    pageYOffset,        \* window.pageYOffset
    scrollEvent,        \* a scroll event is waiting to be dispatched
    selectionMade,      \* history: setSelectedSection has been called
    invoked,            \* history: wrapper invocations since the throttle was idle
    executed,           \* history: callback executions since the throttle was idle
    last,               \* history: what the last handler did
    userScrolls,        \* history: how often the user has scrolled (SpecFair)
    loc,                \* the locator's inputs and result (SpecLocator)
    ids,                \* sections[i].id, <<>> for a section without one
    idAtWrite,          \* history: the target's id when the fragment was written
    media               \* the images, their loads and the storage (SpecMedia)

vars == <<loaded, selectedSection, linkers, sections, locationHash,
          scrollListener, addedScrollEvents, running, timeouts, initTimer,
          scrolling, element, lastOffsetY, frames, pageYOffset, scrollEvent,
          selectionMade, invoked, executed, last, userScrolls, loc, ids,
          idAtWrite, media>>

\* What the handlers of the page leave alone.
aux == <<loc, invoked, executed, userScrolls, media>>

\* The current state as a record, and the action that installs a record.
cur ==
    [loaded |-> loaded, selectedSection |-> selectedSection,
     linkers |-> linkers, sections |-> sections,
     locationHash |-> locationHash, scrollListener |-> scrollListener,
     addedScrollEvents |-> addedScrollEvents, running |-> running,
     timeouts |-> timeouts, initTimer |-> initTimer, scrolling |-> scrolling,
     element |-> element, lastOffsetY |-> lastOffsetY, frames |-> frames,
     pageYOffset |-> pageYOffset, scrollEvent |-> scrollEvent,
     selectionMade |-> selectionMade, last |-> last, ids |-> ids,
     idAtWrite |-> idAtWrite, thrown |-> FALSE]

Install(s) ==
    /\ loaded' = s.loaded
    /\ selectedSection' = s.selectedSection
    /\ linkers' = s.linkers
    /\ sections' = s.sections
    /\ locationHash' = s.locationHash
    /\ scrollListener' = s.scrollListener
    /\ addedScrollEvents' = s.addedScrollEvents
    /\ running' = s.running
    /\ timeouts' = s.timeouts
    /\ initTimer' = s.initTimer
    /\ scrolling' = s.scrolling
    /\ element' = s.element
    /\ lastOffsetY' = s.lastOffsetY
    /\ frames' = s.frames
    /\ pageYOffset' = s.pageYOffset
    /\ scrollEvent' = s.scrollEvent
    /\ selectionMade' = s.selectionMade
    /\ last' = s.last
    /\ ids' = s.ids
    /\ idAtWrite' = s.idAtWrite

\* The handler's result is computed once, then installed.
Set(s) == \E t \in {s} : Install(t)

\* The program's part of a state record (the history fields blanked).
Prog(s) == [s EXCEPT !.last = 0]

\* History: a key or a click handler starts.  before is selectedSection at
\* that moment, marked whether the marker is set there.
Begin(s, op, arg) ==
    [s EXCEPT !.last = [op |-> op, arg |-> arg,
                        before |-> s.selectedSection,
                        marked |-> s.linkers[s.selectedSection] = "selected",
                        prevented |-> FALSE]]

\* History: any other handler starts.
NoLast == [op |-> "other", arg |-> undefined, before |-> undefined,
           marked |-> FALSE, prevented |-> FALSE]

Other(s) == [s EXCEPT !.last = NoLast]

\* ---------------------------------------------------------------- helpers

getOffsetY(s) ==
    IF s.pageYOffset # 0 THEN s.pageYOffset ELSE clientTop

\* The loop with <= for <.
RECURSIVE scanSectionsLeq(_, _, _)
scanSectionsLeq(tops, i, offsetY) ==
    IF i < 0 THEN 0
    ELSE IF tops[i + 1] <= offsetY THEN i
    ELSE scanSectionsLeq(tops, i - 1, offsetY)

\* The loop falling back to the last section when it finds none.
RECURSIVE scanSectionsDefaultLast(_, _, _)
scanSectionsDefaultLast(tops, i, offsetY) ==
    IF i < 0 THEN Len(tops) - 1
    ELSE IF tops[i + 1] < offsetY THEN i
    ELSE scanSectionsDefaultLast(tops, i - 1, offsetY)

RECURSIVE scanSections(_, _, _)
scanSections(tops, i, offsetY) ==
    IF i < 0 THEN 0
    ELSE IF tops[i + 1] < offsetY THEN i
    ELSE scanSections(tops, i - 1, offsetY)

\* getCurrentSection without its top-of-page case.
getCurrentSectionNoTopCase(tops, offsetY, partialHeight) ==
    scanSections(tops, Len(tops) - 1, offsetY + partialHeight)

getCurrentSection(tops, offsetY, partialHeight) ==
    IF offsetY = 0 THEN 0
    ELSE scanSections(tops, Len(tops) - 1, offsetY + partialHeight)

\* setSelectedSection without the clearing of the old marker.
setSelectedSectionNoClear(s, newSection) ==
    [s EXCEPT !.linkers = [@ EXCEPT ![newSection] = "selected"],
              !.sections = [@ EXCEPT ![newSection] = "selected"],
              !.selectedSection = newSection,
              !.selectionMade = TRUE]

\* setSelectedSection without the assignment to selectedSection.
setSelectedSectionNoCommit(s, newSection) ==
    LET l1 == [s.linkers EXCEPT ![s.selectedSection] = ""]
        l2 == [l1 EXCEPT ![newSection] = "selected"]
        s1 == [s.sections EXCEPT ![s.selectedSection] = ""]
        s2 == [s1 EXCEPT ![newSection] = "selected"]
    IN [s EXCEPT !.linkers = l2, !.sections = s2, !.selectionMade = TRUE]

\* setSelectedSection with its two assignments swapped: the new marker is
\* set first, the old one cleared after.
setSelectedSectionClearLast(s, newSection) ==
    LET l1 == [s.linkers EXCEPT ![newSection] = "selected"]
        l2 == [l1 EXCEPT ![s.selectedSection] = ""]
        s1 == [s.sections EXCEPT ![newSection] = "selected"]
        s2 == [s1 EXCEPT ![s.selectedSection] = ""]
    IN [s EXCEPT !.linkers = l2, !.sections = s2,
                 !.selectedSection = newSection,
                 !.selectionMade = TRUE]

setSelectedSection(s, newSection) ==
    LET l1 == [s.linkers EXCEPT ![s.selectedSection] = ""]
        l2 == [l1 EXCEPT ![newSection] = "selected"]
        s1 == [s.sections EXCEPT ![s.selectedSection] = ""]
        s2 == [s1 EXCEPT ![newSection] = "selected"]
    IN [s EXCEPT !.linkers = l2, !.sections = s2,
                 !.selectedSection = newSection,
                 !.selectionMade = TRUE]

\* The later revision of the script (selectedSection starts undefined).
updateSelectionClassNames(selected, newSection, grouping) ==
    LET g1 == IF selected # undefined
              THEN [grouping EXCEPT ![selected] = ""]
              ELSE grouping
    IN [g1 EXCEPT ![newSection] = "selected"]

setSelectedSection2(s, newSection) ==
    [s EXCEPT !.linkers = updateSelectionClassNames(s.selectedSection,
                                                    newSection, s.linkers),
              !.sections = updateSelectionClassNames(s.selectedSection,
                                                     newSection, s.sections),
              !.selectedSection = newSection,
              !.selectionMade = TRUE]

\* document.getElementById(hash): the index of the section with that id,
\* undefined (null) when there is none.
getElementById(s, hash) ==
    IF hash # <<>> /\ \E i \in Indices : s.ids[i] = hash
    THEN CHOOSE i \in Indices :
             s.ids[i] = hash /\ \A j \in Indices : s.ids[j] = hash => i <= j
    ELSE undefined

\* setLocationHash that leaves the element's id in place while it writes.
setLocationHashNoClear(s, hash) ==
    LET target == getElementById(s, hash)
    IN IF target = undefined THEN [s EXCEPT !.thrown = TRUE]
       ELSE [s EXCEPT !.locationHash = <<"#", hash>>,
                      !.idAtWrite = s.ids[target]]

\* element.id = "" throws for no element (thrown); the fragment is written
\* with the id cleared, then the id is set to hash again.
setLocationHash(s, hash) ==
    LET target == getElementById(s, hash)
    IN IF target = undefined THEN [s EXCEPT !.thrown = TRUE]
       ELSE LET s1 == [s EXCEPT !.ids[target] = <<>>]
                s2 == [s1 EXCEPT !.locationHash = <<"#", hash>>,
                                 !.idAtWrite = s1.ids[target]]
            IN [s2 EXCEPT !.ids[target] = hash]

addScrollEvents(s) ==
    IF s.addedScrollEvents THEN s
    ELSE [s EXCEPT !.scrollListener = TRUE, !.addedScrollEvents = TRUE]

removeScrollEvents(s) ==
    [s EXCEPT !.scrollListener = FALSE, !.addedScrollEvents = FALSE]

\* window.scrollTo(0, y): the browser clamps y to the scrollable range and
\* queues a scroll event when the position changes.
windowScrollTo(s, y) ==
    LET to == Max(0, Min(y, MaxScroll))
    IN IF to = s.pageYOffset THEN s
       ELSE [s EXCEPT !.pageYOffset = to, !.scrollEvent = TRUE]

\* ----------------------------------------------------------------- throttle

\* throttleSync without its running check: every invocation schedules.
throttleSyncUnguarded(s) ==
    [s EXCEPT !.running = TRUE, !.timeouts = @ + 1]

\* The function throttleSync returns, for onScroll.
throttleSync(s) ==
    IF s.running THEN s
    ELSE [s EXCEPT !.running = TRUE, !.timeouts = @ + 1]

\* The callback onScroll throttles.
onScrollPass(s) ==
    LET offsetY == getOffsetY(s)
        newSection == getCurrentSection(SectionTops, offsetY, HalfHeight)
        s1 == IF newSection # s.selectedSection
              THEN setSelectedSection(s, newSection)
              ELSE s
    IN setLocationHash(s1, s.ids[newSection])

\* The setTimeout callback without its running = false.
throttleTimeoutNoClear(s) ==
    LET s1 == onScrollPass(s)
    IN [s1 EXCEPT !.timeouts = @ - 1]

\* The setTimeout callback of throttleSync; when
\* callback() throws: running = false is not reached.
throttleTimeout(s) ==
    LET s1 == onScrollPass(s)
    IN IF s1.thrown THEN [s1 EXCEPT !.thrown = FALSE, !.timeouts = @ - 1]
       ELSE [s1 EXCEPT !.running = FALSE, !.timeouts = @ - 1]

\* ----------------------------------------------------------- scroll animator

\* scroller without its stall check: it ends on exact arrival only.
scrollerNoStall(s) ==
    LET offsetY == getOffsetY(s)
        offsetTop == SectionTops[s.element + 1]
        difference == offsetTop - offsetY
        step == IF difference > 0 THEN Min(difference, maxStep)
                ELSE Max(difference, -maxStep)
    IN IF difference = 0
       THEN addScrollEvents([s EXCEPT !.scrolling = FALSE,
                                      !.lastOffsetY = undefined])
       ELSE [windowScrollTo([s EXCEPT !.lastOffsetY = offsetY],
                            offsetY + step)
                EXCEPT !.frames = @ + 1]

\* scroller without the clamp of its step.
scrollerUnclamped(s) ==
    LET offsetY == getOffsetY(s)
        offsetTop == SectionTops[s.element + 1]
        difference == offsetTop - offsetY
    IN IF offsetY = s.lastOffsetY \/ difference = 0
       THEN addScrollEvents([s EXCEPT !.scrolling = FALSE,
                                      !.lastOffsetY = undefined])
       ELSE [windowScrollTo([s EXCEPT !.lastOffsetY = offsetY],
                            offsetY + difference)
                EXCEPT !.frames = @ + 1]

\* scroller that ends without addScrollEvents().
scrollerNoReattach(s) ==
    LET offsetY == getOffsetY(s)
        offsetTop == SectionTops[s.element + 1]
        difference == offsetTop - offsetY
        step == IF difference > 0 THEN Min(difference, maxStep)
                ELSE Max(difference, -maxStep)
    IN IF offsetY = s.lastOffsetY \/ difference = 0
       THEN [s EXCEPT !.scrolling = FALSE, !.lastOffsetY = undefined]
       ELSE [windowScrollTo([s EXCEPT !.lastOffsetY = offsetY],
                            offsetY + step)
                EXCEPT !.frames = @ + 1]

scroller(s) ==
    LET offsetY == getOffsetY(s)
        offsetTop == SectionTops[s.element + 1]
        difference == offsetTop - offsetY
        step == IF difference > 0 THEN Min(difference, maxStep)
                ELSE Max(difference, -maxStep)
    IN IF offsetY = s.lastOffsetY \/ difference = 0
       THEN addScrollEvents([s EXCEPT !.scrolling = FALSE,
                                      !.lastOffsetY = undefined])
       ELSE [windowScrollTo([s EXCEPT !.lastOffsetY = offsetY],
                            offsetY + step)
                EXCEPT !.frames = @ + 1]

\* scrollToSection without its scrolling check: every call starts a loop.
scrollToSectionUnguarded(s, sectionIndex) ==
    LET s1 == removeScrollEvents([s EXCEPT !.scrolling = TRUE])
        s2 == [s1 EXCEPT !.element = sectionIndex,
                         !.lastOffsetY = undefined]
    IN scroller(s2)

scrollToSection(s, sectionIndex) ==
    IF s.scrolling THEN s
    ELSE LET s1 == removeScrollEvents([s EXCEPT !.scrolling = TRUE])
             s2 == [s1 EXCEPT !.element = sectionIndex,
                              !.lastOffsetY = undefined]
         IN scroller(s2)

\* ------------------------------------------------------------------ handlers

\* onKeyDown with its lower bound check off by one.
onKeyDownOffByOne(s, shiftKey, ctrlKey, keyCode) ==
    LET direction == IF keyCode = keyLeft THEN -1
                     ELSE IF keyCode = keyRight THEN 1 ELSE 0
        newSection == s.selectedSection + direction
    IN IF shiftKey \/ ctrlKey THEN s
       ELSE IF direction = 0 THEN s
       ELSE IF newSection <= 0 \/ newSection = N THEN s
       ELSE scrollToSection(setSelectedSection(s, newSection), newSection)

onKeyDown(s, shiftKey, ctrlKey, keyCode) ==
    LET direction == IF keyCode = keyLeft THEN -1
                     ELSE IF keyCode = keyRight THEN 1 ELSE 0
        newSection == s.selectedSection + direction
    IN IF shiftKey \/ ctrlKey THEN s
       ELSE IF direction = 0 THEN s
       ELSE IF newSection < 0 \/ newSection = N THEN s
       ELSE scrollToSection(setSelectedSection(s, newSection), newSection)

\* event.preventDefault()
preventDefault(s) == [s EXCEPT !.last.prevented = TRUE]

clickLinker(s, ctrlKey, sectionIndex) ==
    IF ctrlKey THEN s
    ELSE preventDefault(
             scrollToSection(setSelectedSection(s, sectionIndex), sectionIndex))

onLoad(s) ==
    LET s1 == [s EXCEPT !.loaded = TRUE, !.scrollListener = TRUE]
        s2 == throttleSync(addScrollEvents(s1))
    IN [s2 EXCEPT !.initTimer = TRUE]

\* onLoad's initialFadeInDelay timeout
initialSelect(s) ==
    LET s1 == [s EXCEPT !.initTimer = FALSE]
    IN IF s1.selectedSection = 0 THEN setSelectedSection(s1, 0) ELSE s1

\* The window dispatches a scroll event to its listeners.
dispatchScroll(s) ==
    LET s1 == [s EXCEPT !.scrollEvent = FALSE]
    IN IF s1.scrollListener THEN throttleSync(s1) ELSE s1

\* A requestAnimationFrame callback runs.
animationFrame(s) ==
    scroller([s EXCEPT !.frames = @ - 1])

\* ------------------------------------------------------------------- actions

\* ------------------------------------------------------ the images' loader

Images == 0 .. (MaxImages - 1)

\* The two kinds of window.innerWidth that onResize tells apart.
Widths == {thinScreenThreshold - 1, thinScreenThreshold}

\* image.getAttribute("data-src") of images[i]
dataSrc(i) == <<"images/", ToString(i)>>

\* localStoragePrefix + newImageUri
storageKey(newImageUri) == <<localStoragePrefix>> \o newImageUri

\* The blob the server answers a GET of the URI with: the image, or the
\* page of an error status.
imageBlob(newImageUri) == <<"image of">> \o newImageUri
errorBlob(newImageUri) == <<"no page at">> \o newImageUri

\* reader.readAsDataURL(response): reader.result
readAsDataURL(response) == <<"data:", "base64,">> \o response

\* localStorage is a set of <<key, value>>; getItem gives <<>> for no entry.
Entries(storage, key) == {e \in storage : e[1] = key}

getItem(storage, key) ==
    IF Entries(storage, key) = {} THEN <<>>
    ELSE (CHOOSE e \in Entries(storage, key) : TRUE)[2]

\* localStorage.setItem with the value appended to the entry's old value.
setItemAppend(storage, key, value) ==
    (storage \ Entries(storage, key)) \cup {<<key, getItem(storage, key) \o value>>}

setItem(storage, key, value) ==
    (storage \ Entries(storage, key)) \cup {<<key, value>>}

\* className.replace("loading", "loaded"): the first occurrence is replaced.
replaceLoading(className) ==
    LET at == {k \in 1 .. Len(className) : className[k] = "loading"}
    IN IF at = {} THEN className
       ELSE [className EXCEPT ![CHOOSE k \in at : \A j \in at : k <= j] = "loaded"]

\* One call of fadeImageIn and the callbacks it has left.
NewLoad(i, phase, storedData) ==
    [image |-> i, phase |-> phase, storedData |-> storedData, response |-> <<>>]

\* fadeImageIn without its look into the storage.
fadeImageInNoCache(m, i) ==
    [m EXCEPT !.loads = Append(@, NewLoad(i, "request", <<>>))]

fadeImageIn(m, i) ==
    LET storedData == getItem(m.storage, storageKey(dataSrc(i)))
    IN IF storedData # <<>>
       THEN [m EXCEPT !.className[i] = Append(@, "loading"),
                      !.loads = Append(@, NewLoad(i, "storedFade", storedData))]
       ELSE [m EXCEPT !.loads = Append(@, NewLoad(i, "request", <<>>))]

\* The request's "load" listener: the request is complete, whatever its status.
xhrLoad(m, id, response) ==
    [m EXCEPT !.className[m.loads[id].image] = Append(@, "loading"),
              !.loads[id].phase = "fade",
              !.loads[id].response = response]

\* The request fails on the network: no listener of fadeImageIn runs.
xhrError(m, id) == [m EXCEPT !.loads[id].phase = "error"]

\* The imageOpacityFadeTime timeout of a load, from the storage or fetched.
fadeTimeout(m, id) ==
    LET load == m.loads[id]
    IN IF load.phase = "storedFade"
       THEN [m EXCEPT !.src[load.image] = load.storedData,
                      !.className[load.image] = replaceLoading(@),
                      !.loads[id].phase = "done"]
       ELSE [m EXCEPT !.loads[id].phase = "reading"]

\* reader.onloadend that empties the storage when the quota is exceeded.
readerLoadEndEvicting(m, id, quotaExceeded) ==
    IF quotaExceeded
    THEN [m EXCEPT !.storage = {}, !.loads[id].phase = "quota"]
    ELSE LET load == m.loads[id]
             result == readAsDataURL(load.response)
         IN [m EXCEPT !.storage = setItem(@, storageKey(dataSrc(load.image)),
                                          result),
                      !.src[load.image] = result,
                      !.className[load.image] = replaceLoading(@),
                      !.loads[id].phase = "done"]

\* reader.onloadend; localStorage.setItem throws when the quota is exceeded,
\* which ends the callback.
readerLoadEnd(m, id, quotaExceeded) ==
    LET load == m.loads[id]
        result == readAsDataURL(load.response)
    IN IF quotaExceeded THEN [m EXCEPT !.loads[id].phase = "quota"]
       ELSE [m EXCEPT !.storage = setItem(@, storageKey(dataSrc(load.image)),
                                          result),
                      !.src[load.image] = result,
                      !.className[load.image] = replaceLoading(@),
                      !.loads[id].phase = "done"]

\* The later revision: fadeEmojiIn, its timeout and fadeImageLikeIn.  Its
\* fadeImageIn is the one above but for classList in the place of className.
fadeEmojiIn(m, i) ==
    [m EXCEPT !.loads = Append(@, NewLoad(i, "emojiFade", <<>>))]

\* emoji.classList.add("loaded")
emojiTimeout(m, id) ==
    LET emoji == m.loads[id].image
    IN [m EXCEPT !.className[emoji] =
                     IF \E k \in DOMAIN @ : @[k] = "loaded" THEN @
                     ELSE Append(@, "loaded"),
                 !.loads[id].phase = "done"]

fadeImageLikeIn(m, i) ==
    IF m.tagName[i] = "IMG" THEN fadeImageIn(m, i)
    ELSE fadeEmojiIn(m, i)

\* A setTimeout(fadeImageLikeIn, i * 140, imageLikes[i]) of onResize expires.
likeTimeout(m, i) ==
    fadeImageLikeIn([m EXCEPT !.loadTimers[i] = @ - 1], i)

\* onResize: rounds counts the calls that started the images' loads.
onResize(m) ==
    IF m.innerWidth < thinScreenThreshold THEN m
    ELSE [m EXCEPT !.resizeListener = FALSE,
                   !.loadTimers = [i \in DOMAIN @ |-> @[i] + 1],
                   !.rounds = @ + 1]

\* onLoad's window.addEventListener("resize", onResize)
onLoadResize(m) == [m EXCEPT !.resizeListener = TRUE]

\* The script's last statements: onResize() is called at once.
startup(m) == onResize([m EXCEPT !.started = TRUE])

\* A resize event of the window.
resize(m, width) ==
    IF m.resizeListener THEN onResize([m EXCEPT !.innerWidth = width])
    ELSE [m EXCEPT !.innerWidth = width]

\* A setTimeout(fadeImageIn, i * 140, images[i]) of onResize expires.
loadTimeout(m, i) ==
    fadeImageIn([m EXCEPT !.loadTimers[i] = @ - 1], i)

\* The script has not run yet; tagName[i] is the kind of the i-th element.
NoMediaOf(tagName, width) ==
    [started |-> FALSE, innerWidth |-> width, resizeListener |-> FALSE,
     tagName |-> tagName,
     loadTimers |-> [i \in DOMAIN tagName |-> 0],
     className |-> [i \in DOMAIN tagName |-> <<>>],
     src |-> [i \in DOMAIN tagName |-> <<>>],
     storage |-> {}, loads |-> <<>>, rounds |-> 0]

\* document.querySelectorAll("img"): every element is an image.
NoMedia(width) == NoMediaOf([i \in Images |-> "IMG"], width)

\* The script has run in a window below the thin-screen threshold.
ThinMedia == startup(NoMedia(thinScreenThreshold - 1))

NoLoc ==
    [tops |-> <<>>, offsetY |-> 0, partialHeight |-> 0, result |-> undefined,
     offsetY2 |-> 0, result2 |-> undefined]

\* No fragment has been written.
NoWrite == <<"no write", 0>>

\* Every section has its id.
AllIds == [i \in Indices |-> sectionId(i)]

InitPageWith(sectionIds) ==
    /\ loaded = FALSE
    /\ selectedSection = 0
    /\ linkers = [i \in Indices |-> ""]
    /\ sections = [i \in Indices |-> ""]
    /\ locationHash = <<>>
    /\ scrollListener = FALSE
    /\ addedScrollEvents = FALSE
    /\ running = FALSE
    /\ timeouts = 0
    /\ initTimer = FALSE
    /\ scrolling = FALSE
    /\ element = undefined
    /\ lastOffsetY = undefined
    /\ frames = 0
    /\ pageYOffset \in UserStops
    /\ scrollEvent = FALSE
    /\ selectionMade = FALSE
    /\ invoked = 0
    /\ executed = 0
    /\ last = NoLast
    /\ userScrolls = 0
    /\ ids = sectionIds
    /\ idAtWrite = NoWrite

InitPage == InitPageWith(AllIds)

Init ==
    /\ InitPage
    /\ loc = NoLoc
    /\ media = ThinMedia

OnLoad ==
    /\ ~loaded
    /\ media.started
    /\ Set(onLoad(Other(cur)))
    /\ media' = onLoadResize(media)
    /\ UNCHANGED <<loc, invoked, executed, userScrolls>>

\* The user scrolls the page (wheel, scrollbar, touch).
UserScroll ==
    /\ \E y \in UserStops :
          /\ y # pageYOffset
          /\ Set(windowScrollTo(Other(cur), y))
    /\ UNCHANGED aux

DispatchScroll ==
    /\ scrollEvent
    /\ Set(dispatchScroll(Other(cur)))
    /\ UNCHANGED aux

ThrottleTimeout ==
    /\ timeouts > 0
    /\ Set(throttleTimeout(Other(cur)))
    /\ UNCHANGED aux

InitialSelect ==
    /\ initTimer
    /\ Set(initialSelect(Other(cur)))
    /\ UNCHANGED aux

OnKeyDown ==
    /\ loaded
    /\ \E shiftKey \in BOOLEAN, ctrlKey \in BOOLEAN,
          keyCode \in {keyLeft, keyRight, keyOther} :
          Set(onKeyDown(IF shiftKey \/ ctrlKey THEN Other(cur)
                        ELSE Begin(cur, "keydown", keyCode),
                        shiftKey, ctrlKey, keyCode))
    /\ UNCHANGED aux

ClickLinker ==
    /\ loaded
    /\ \E ctrlKey \in BOOLEAN, i \in Indices :
          Set(clickLinker(IF ctrlKey THEN Other(cur) ELSE Begin(cur, "click", i),
                          ctrlKey, i))
    /\ UNCHANGED aux

TouchStart ==
    /\ loaded
    /\ Set(removeScrollEvents(Other(cur)))
    /\ UNCHANGED aux

\* touchend and touchcancel have the same listener
TouchEnd ==
    /\ loaded
    /\ Set(addScrollEvents(Other(cur)))
    /\ UNCHANGED aux

\* Scroll events are dispatched before the frame's animation callbacks run.
AnimationFrame ==
    /\ frames > 0
    /\ ~scrollEvent
    /\ Set(animationFrame(Other(cur)))
    /\ UNCHANGED aux

Next ==
    \/ OnLoad
    \/ UserScroll
    \/ DispatchScroll
    \/ ThrottleTimeout
    \/ InitialSelect
    \/ OnKeyDown
    \/ ClickLinker
    \/ TouchStart
    \/ TouchEnd
    \/ AnimationFrame

Spec == Init /\ [][Next]_vars

TypeOK ==
    /\ selectedSection \in Indices
    /\ timeouts \in 0 .. 1
    /\ frames \in 0 .. 1
    /\ pageYOffset \in 0 .. MaxScroll

\* ------------------------------------------------- the throttle, with counts

\* History of one wrapper invocation: invoked counts the invocations since the
\* throttle was last idle, executed the callback executions since then.
CountInvoke ==
    /\ invoked' = IF running THEN Min(invoked + 1, MaxCalls) ELSE 1
    /\ executed' = IF running THEN executed ELSE 0

CountedLoad ==
    /\ ~loaded
    /\ Set(onLoad(Other(cur)))
    /\ media' = onLoadResize(media)
    /\ CountInvoke
    /\ UNCHANGED <<loc, userScrolls>>

CountedScroll ==
    /\ scrollEvent
    /\ Set(dispatchScroll(Other(cur)))
    /\ IF scrollListener THEN CountInvoke ELSE UNCHANGED <<invoked, executed>>
    /\ UNCHANGED <<loc, userScrolls, media>>

CountedTimeout ==
    /\ timeouts > 0
    /\ Set(throttleTimeout(Other(cur)))
    /\ executed' = executed + 1
    /\ UNCHANGED <<invoked, loc, userScrolls, media>>

CountedTouchStart ==
    /\ loaded
    /\ Set(removeScrollEvents(Other(cur)))
    /\ UNCHANGED aux

CountedTouchEnd ==
    /\ loaded
    /\ Set(addScrollEvents(Other(cur)))
    /\ UNCHANGED aux

NextThrottle ==
    \/ CountedLoad
    \/ UserScroll
    \/ CountedScroll
    \/ CountedTimeout
    \/ CountedTouchStart
    \/ CountedTouchEnd

\* The page with its scroll handling alone: load, scrolling, touches, the
\* throttled pass.
SpecThrottle == Init /\ [][NextThrottle]_vars

\* ------------------------------------------------- the page, with fairness

\* The user scrolls, MaxUserScrolls times at most.
FairUserScroll ==
    /\ userScrolls < MaxUserScrolls
    /\ \E y \in UserStops :
          /\ y # pageYOffset
          /\ Set(windowScrollTo(Other(cur), y))
    /\ userScrolls' = userScrolls + 1
    /\ UNCHANGED <<loc, invoked, executed, media>>

FairKeyDown ==
    /\ loaded
    /\ \E shiftKey \in BOOLEAN, ctrlKey \in BOOLEAN,
          keyCode \in {keyLeft, keyRight, keyOther} :
          Set(onKeyDown(Other(cur), shiftKey, ctrlKey, keyCode))
    /\ UNCHANGED aux

FairClick ==
    /\ loaded
    /\ \E ctrlKey \in BOOLEAN, i \in Indices :
          Set(Other(clickLinker(Other(cur), ctrlKey, i)))
    /\ UNCHANGED aux

NextFair ==
    \/ OnLoad
    \/ FairUserScroll
    \/ DispatchScroll
    \/ ThrottleTimeout
    \/ InitialSelect
    \/ FairKeyDown
    \/ FairClick
    \/ TouchStart
    \/ TouchEnd
    \/ AnimationFrame

\* The browser runs every scheduled frame callback and dispatches every
\* queued scroll event.
SpecFair ==
    /\ Init
    /\ [][NextFair]_vars
    /\ WF_vars(AnimationFrame)
    /\ WF_vars(DispatchScroll)

\* ------------------------------------------------------ the locator, alone

\* The layout of the specification's example.
ExampleTops == <<0, 500, 1200, 2000>>

ExampleCall ==
    [tops |-> ExampleTops, offsetY |-> 650, partialHeight |-> 300,
     result |-> undefined, offsetY2 |-> 650, result2 |-> undefined]

Layouts ==
    UNION {[1 .. n -> 0 .. MaxTop] : n \in 1 .. MaxSections}

Offsets == (0 - MaxOverscroll) .. MaxOffset

\* A call with offsetY, then a call with offsetY2 >= offsetY on the same
\* layout with the same partial height.
LocatorCalls(offsets) ==
    {c \in {[tops |-> tops, offsetY |-> y, partialHeight |-> p,
             result |-> undefined, offsetY2 |-> y2, result2 |-> undefined] :
                tops \in Layouts, y \in offsets, p \in 0 .. MaxPartial,
                y2 \in offsets} :
        c.offsetY <= c.offsetY2}
    \cup {ExampleCall}

InitLocator ==
    /\ InitPage
    /\ pageYOffset = 0
    /\ loc \in LocatorCalls(Offsets)
    /\ media = ThinMedia

\* getCurrentSection(sections, offsetY, partialHeight) is called.
Locate ==
    /\ loc.result = undefined
    /\ loc' = [loc EXCEPT !.result = getCurrentSection(loc.tops, loc.offsetY,
                                                       loc.partialHeight)]
    /\ UNCHANGED <<loaded, selectedSection, linkers, sections, locationHash,
                   scrollListener, addedScrollEvents, running, timeouts,
                   initTimer, scrolling, element, lastOffsetY, frames,
                   pageYOffset, scrollEvent, selectionMade, invoked, executed,
                   last, userScrolls, ids, idAtWrite, media>>

\* getCurrentSection(sections, offsetY2, partialHeight) is called after it.
LocateAgain ==
    /\ loc.result # undefined
    /\ loc.result2 = undefined
    /\ loc' = [loc EXCEPT !.result2 = getCurrentSection(loc.tops, loc.offsetY2,
                                                        loc.partialHeight)]
    /\ UNCHANGED <<loaded, selectedSection, linkers, sections, locationHash,
                   scrollListener, addedScrollEvents, running, timeouts,
                   initTimer, scrolling, element, lastOffsetY, frames,
                   pageYOffset, scrollEvent, selectionMade, invoked, executed,
                   last, userScrolls, ids, idAtWrite, media>>

NextLocator ==
    \/ Locate
    \/ LocateAgain

SpecLocator == InitLocator /\ [][NextLocator]_vars

\* ------------------------------------------------------- the images, alone

\* The variables the images' loader leaves alone.
notMedia ==
    <<loaded, selectedSection, linkers, sections, locationHash,
      scrollListener, addedScrollEvents, running, timeouts, initTimer,
      scrolling, element, lastOffsetY, frames, pageYOffset, scrollEvent,
      selectionMade, invoked, executed, last, userScrolls, loc, ids,
      idAtWrite>>

\* What an earlier visit of the page may have left in the storage.
EarlierStorages ==
    SUBSET {<<storageKey(dataSrc(i)), readAsDataURL(imageBlob(dataSrc(i)))>> :
               i \in Images}

InitMedia ==
    /\ InitPage
    /\ pageYOffset = 0
    /\ loc = NoLoc
    /\ \E width \in Widths, storage \in EarlierStorages :
          media = [NoMedia(width) EXCEPT !.storage = storage]

\* The script runs to its end.
Startup ==
    /\ ~media.started
    /\ media' = startup(media)
    /\ UNCHANGED notMedia

\* The user resizes the window.
Resize ==
    /\ media.started
    /\ \E width \in Widths : media' = resize(media, width)
    /\ UNCHANGED notMedia

LoadTimeout ==
    /\ \E i \in Images :
          /\ media.loadTimers[i] > 0
          /\ media' = loadTimeout(media, i)
    /\ UNCHANGED notMedia

\* The server answers a request, with the image or with an error status.
XhrLoad ==
    /\ \E id \in DOMAIN media.loads :
          /\ media.loads[id].phase = "request"
          /\ \E response \in {imageBlob(dataSrc(media.loads[id].image)),
                              errorBlob(dataSrc(media.loads[id].image))} :
                media' = xhrLoad(media, id, response)
    /\ UNCHANGED notMedia

XhrError ==
    /\ \E id \in DOMAIN media.loads :
          /\ media.loads[id].phase = "request"
          /\ media' = xhrError(media, id)
    /\ UNCHANGED notMedia

FadeTimeout ==
    /\ \E id \in DOMAIN media.loads :
          /\ media.loads[id].phase \in {"storedFade", "fade"}
          /\ media' = fadeTimeout(media, id)
    /\ UNCHANGED notMedia

ReaderLoadEnd ==
    /\ \E id \in DOMAIN media.loads :
          /\ media.loads[id].phase = "reading"
          /\ \E quotaExceeded \in BOOLEAN :
                media' = readerLoadEnd(media, id, quotaExceeded)
    /\ UNCHANGED notMedia

NextMedia ==
    \/ Startup
    \/ OnLoad
    \/ Resize
    \/ LoadTimeout
    \/ XhrLoad
    \/ XhrError
    \/ FadeTimeout
    \/ ReaderLoadEnd

\* The page's images: the script, the load event, resizes, and the callbacks
\* of the loads.
SpecMedia == InitMedia /\ [][NextMedia]_vars

\* ----------------------------------- the images and emojis, later revision

ImageLikes == 0 .. (MaxLikes - 1)

EarlierLikeStorages ==
    SUBSET {<<storageKey(dataSrc(i)), readAsDataURL(imageBlob(dataSrc(i)))>> :
               i \in ImageLikes}

InitLikes ==
    /\ InitPage
    /\ pageYOffset = 0
    /\ loc = NoLoc
    /\ \E width \in Widths, storage \in EarlierLikeStorages,
          tagName \in [ImageLikes -> {"IMG", "SPAN"}] :
          media = [NoMediaOf(tagName, width) EXCEPT !.storage = storage]

LikeTimeout ==
    /\ \E i \in DOMAIN media.loadTimers :
          /\ media.loadTimers[i] > 0
          /\ media' = likeTimeout(media, i)
    /\ UNCHANGED notMedia

EmojiTimeout ==
    /\ \E id \in DOMAIN media.loads :
          /\ media.loads[id].phase = "emojiFade"
          /\ media' = emojiTimeout(media, id)
    /\ UNCHANGED notMedia

NextLikes ==
    \/ Startup
    \/ Resize
    \/ LikeTimeout
    \/ EmojiTimeout
    \/ XhrLoad
    \/ XhrError
    \/ FadeTimeout
    \/ ReaderLoadEnd

\* The images and emojis of the later revision, from the script's start.
SpecLikes == InitLikes /\ [][NextLikes]_vars

\* ------------------------------------------- a page with sections without id

\* The ids of a page some of whose sections have none.
IdsWithout(missing) ==
    [i \in Indices |-> IF i \in missing THEN <<>> ELSE sectionId(i)]

InitMissingId ==
    /\ \E missing \in SUBSET Indices : InitPageWith(IdsWithout(missing))
    /\ loc = NoLoc
    /\ media = ThinMedia

\* The scroll handling of such a page; the browser runs every timeout.
SpecMissingId ==
    /\ InitMissingId
    /\ [][NextThrottle]_vars
    /\ WF_vars(CountedTimeout)

\* -------------------------------------------------------------------- claims

\* C1: k >= 1 invocations of the throttled wrapper before the deferred tick
\* give exactly one execution of the callback: while the tick is pending
\* exactly one timeout is scheduled however many invocations were made, and
\* once it has run the callback has executed exactly once.
C1_ThrottleOnce ==
    /\ running => (invoked >= 1 /\ executed = 0 /\ timeouts = 1)
    /\ (~running /\ invoked >= 1) => (executed = 1 /\ timeouts = 0)

C1_Witness == ~running /\ invoked = MaxCalls /\ executed = 1

\* The animator's part of a state record.
animator(s) ==
    <<s.scrolling, s.element, s.lastOffsetY, s.scrollListener,
      s.addedScrollEvents, s.frames>>

\* C2: scrollToSection(j) while scrolling is true changes nothing (flag,
\* target, stall sample, listener attachment, scheduled frames), neither
\* called alone nor from the key and click handlers, and at most one frame
\* callback is ever scheduled.
C2_ScrollToNoOp ==
    /\ frames <= 1
    /\ scrolling <=> frames = 1
    /\ scrolling =>
          /\ \A j \in Indices : scrollToSection(cur, j) = cur
          /\ \A j \in Indices :
                animator(clickLinker(cur, FALSE, j)) = animator(cur)
          /\ \A k \in {keyLeft, keyRight} :
                animator(onKeyDown(cur, FALSE, FALSE, k)) = animator(cur)

\* A click on linker i was handled while the animation toward another
\* section was running.
C2_Witness ==
    /\ last.op = "click"
    /\ scrolling
    /\ element # last.arg
    /\ selectedSection = last.arg

\* C3: a throttled pass that runs while scrolling is true changes neither
\* selectedSection nor the URL hash.
C3_NoPassWhileScrolling ==
    [][(scrolling /\ ThrottleTimeout)
          => UNCHANGED <<selectedSection, locationHash>>]_vars

Marked(grouping) == {i \in Indices : grouping[i] = "selected"}

\* C5: once a selection has been made, exactly one linker and exactly one
\* section carry the selected marker, both at index selectedSection.
C5_OneSelected ==
    selectionMade =>
        /\ Marked(linkers) = {selectedSection}
        /\ Marked(sections) = {selectedSection}

\* The last section is selected while the page is being scrolled.
C5_Witness ==
    /\ selectionMade
    /\ scrolling
    /\ selectedSection = N - 1
    /\ linkers[N - 1] = "selected"
    /\ sections[N - 1] = "selected"

\* The state as the later revision holds it: selectedSection is undefined
\* until the first selection.
cur2 ==
    [cur EXCEPT !.selectedSection = IF selectionMade THEN @ ELSE undefined]

\* C6: select(i), from every reachable selection state (the unset one too),
\* leaves the marker on linkers[i] and sections[i] alone and sets
\* selectedSection to i; in both revisions of setSelectedSection.
C6_SelectMarksOne ==
    \A i \in Indices :
        /\ LET t == setSelectedSection(cur, i)
           IN /\ Marked(t.linkers) = {i}
              /\ Marked(t.sections) = {i}
              /\ t.selectedSection = i
        /\ LET t == setSelectedSection2(cur2, i)
           IN /\ Marked(t.linkers) = {i}
              /\ Marked(t.sections) = {i}
              /\ t.selectedSection = i

\* The first selection of the page was a click on the last linker.
C6_Witness ==
    /\ last.op = "click"
    /\ ~last.marked
    /\ last.arg = N - 1
    /\ Marked(linkers) = {N - 1}
    /\ Marked(sections) = {N - 1}
    /\ selectedSection = N - 1

\* C7: select(i) twice gives the markers and the selectedSection of
\* select(i) once, with one selected linker and one selected section.
C7_SelectIdempotent ==
    \A i \in Indices :
        LET once == setSelectedSection(cur, i)
            twice == setSelectedSection(once, i)
        IN /\ twice.linkers = once.linkers
           /\ twice.sections = once.sections
           /\ twice.selectedSection = once.selectedSection
           /\ Cardinality(Marked(twice.linkers)) = 1
           /\ Cardinality(Marked(twice.sections)) = 1

\* A click selected the section that was selected and marked already.
C7_Witness ==
    /\ last.op = "click"
    /\ last.marked
    /\ last.before = last.arg
    /\ selectedSection = last.arg
    /\ Marked(linkers) = {last.arg}
    /\ Marked(sections) = {last.arg}

\* What a plain left or right key makes of selectedSection = k.
afterKey(k, keyCode) ==
    IF keyCode = keyLeft THEN (IF k > 0 THEN k - 1 ELSE k)
    ELSE IF keyCode = keyRight THEN (IF k < N - 1 THEN k + 1 ELSE k)
    ELSE k

\* C8: without shift and control the left key takes selectedSection from k
\* to k - 1 and the right key to k + 1; left at 0 and right at N - 1 change
\* nothing; selectedSection stays in 0 .. N - 1.
C8_KeyNavigation ==
    /\ selectedSection \in Indices
    /\ \A keyCode \in {keyLeft, keyRight} :
          LET t == onKeyDown(cur, FALSE, FALSE, keyCode)
          IN /\ t.selectedSection = afterKey(selectedSection, keyCode)
             /\ t.selectedSection = selectedSection => t = cur
    /\ last.op = "keydown" => selectedSection = afterKey(last.before, last.arg)

\* The right key was pressed with the last section selected.
C8_Witness ==
    /\ last.op = "keydown"
    /\ last.arg = keyRight
    /\ last.before = N - 1
    /\ selectedSection = N - 1

\* The sections (as indices from 0) whose top is strictly less than y.
Above(tops, y) == {i \in 0 .. (Len(tops) - 1) : tops[i + 1] < y}

Highest(S) == CHOOSE i \in S : \A j \in S : j <= i

\* C9: for offsetY # 0 the locator returns the highest index whose top is
\* strictly less than offsetY + partialHeight, and 0 when there is none; for
\* tops 0, 500, 1200, 2000, partial height 300 and offset 650 it returns 1.
C9_LocatorReference ==
    (loc.result # undefined /\ loc.offsetY # 0) =>
        LET found == Above(loc.tops, loc.offsetY + loc.partialHeight)
        IN /\ loc.result = IF found = {} THEN 0 ELSE Highest(found)
           /\ [loc EXCEPT !.result = undefined, !.result2 = undefined]
                 = ExampleCall => loc.result = 1

\* The example's call has returned.
C9_Witness ==
    /\ loc.tops = ExampleTops
    /\ loc.offsetY = 650
    /\ loc.partialHeight = 300
    /\ loc.result = 1

\* The tops of sections that follow each other down the page.
DocumentOrder(tops) ==
    \A i \in 1 .. (Len(tops) - 1) : tops[i] <= tops[i + 1]

\* C10 as stated: for offsetY below the first section's top the locator
\* returns 0, whatever the partial height and the layout (taken here for the
\* layouts in document order, which are among those the claim covers).
C10_BelowFirstIsZero ==
    (/\ loc.result # undefined
     /\ DocumentOrder(loc.tops)
     /\ loc.offsetY < loc.tops[1])
        => loc.result = 0

\* C10 as amended: the locator returns 0 when offsetY + partialHeight does
\* not exceed the top of any section (with tops in document order: when it
\* does not exceed the first section's top).
C10_EffectiveBelowAllIsZero ==
    (/\ loc.result # undefined
     /\ \A i \in 1 .. Len(loc.tops) :
           loc.offsetY + loc.partialHeight <= loc.tops[i])
        => loc.result = 0

\* A call with several sections, a nonzero offset below the first top and
\* the look-ahead still not past any top has returned 0.
C10_Witness ==
    /\ loc.result = 0
    /\ Len(loc.tops) > 1
    /\ loc.offsetY # 0
    /\ loc.partialHeight # 0
    /\ loc.offsetY < loc.tops[1]
    /\ \A i \in 1 .. Len(loc.tops) :
          loc.offsetY + loc.partialHeight <= loc.tops[i]

\* C11: for offsetY = 0 the locator returns 0, whatever the partial height
\* and the tops of the sections.
C11_TopOfPageIsZero ==
    /\ (loc.result # undefined /\ loc.offsetY = 0) => loc.result = 0
    /\ (loc.result2 # undefined /\ loc.offsetY2 = 0) => loc.result2 = 0

\* A call at offset 0 has returned 0 although a later section's top lies
\* below the partial height.
C11_Witness ==
    /\ loc.offsetY = 0
    /\ loc.result = 0
    /\ \E i \in 2 .. Len(loc.tops) : loc.tops[i] < loc.partialHeight

\* C12: the locator is monotonic non-decreasing in offsetY: of two calls
\* on one layout with one partial height, the one with the larger offset
\* does not return the smaller index.
C12_Monotonic ==
    (loc.result2 # undefined /\ loc.offsetY <= loc.offsetY2)
        => loc.result <= loc.result2

\* The loads whose request is with the server.
Requests(m) == {id \in DOMAIN m.loads : m.loads[id].phase = "request"}

\* C13: a load that found no entry for its URL writes, when its reader ends,
\* the one entry under prefix + URL, holding the encoded fetched bytes; a load
\* of a URL that has an entry sends no request and takes the entry as the
\* image's source.
C13_CacheRoundTrip ==
    /\ \A id \in DOMAIN media.loads :
          LET load == media.loads[id]
              key == storageKey(dataSrc(load.image))
          IN /\ load.phase = "reading" =>
                   /\ load.storedData = <<>>
                   /\ Entries(readerLoadEnd(media, id, FALSE).storage, key)
                         = {<<key, readAsDataURL(load.response)>>}
             /\ load.storedData # <<>> =>
                   /\ load.phase \in {"storedFade", "done"}
                   /\ load.response = <<>>
    /\ \A i \in Images :
          LET storedData == getItem(media.storage, storageKey(dataSrc(i)))
              t == loadTimeout(media, i)
          IN (media.loadTimers[i] > 0 /\ storedData # <<>>) =>
                /\ Requests(t) = Requests(media)
                /\ Len(t.loads) = Len(media.loads) + 1
                /\ fadeTimeout(t, Len(t.loads)).src[i] = storedData

\* An image was loaded twice: the first load fetched and wrote the entry, the
\* second took the entry as the source.
C13_Witness ==
    \E a, b \in DOMAIN media.loads :
        LET first == media.loads[a]
            second == media.loads[b]
            key == storageKey(dataSrc(first.image))
        IN /\ a < b
           /\ first.image = second.image
           /\ first.storedData = <<>>
           /\ first.phase = "done"
           /\ second.phase = "done"
           /\ second.storedData = readAsDataURL(first.response)
           /\ Entries(media.storage, key) = {<<key, second.storedData>>}
           /\ media.src[first.image] = second.storedData

\* C14: onResize starts the images' loads once in the life of a page: after a
\* call at a width of thinScreenThreshold or more, the script's call
\* included, no resize event starts them again.
C14_ResizeLoadsOnce == media.rounds <= 1

\* The loads of images[i], and those that failed: the request failed on the
\* network, was answered with an error status, or the storage was full.
LoadsOf(i) == {id \in DOMAIN media.loads : media.loads[id].image = i}

Failed(load) ==
    \/ load.phase \in {"error", "quota"}
    \/ load.response = errorBlob(dataSrc(load.image))

\* C16: an image all of whose loads failed is as it was before them: neither
\* "loading" nor "loaded" is in its class, it has no source, the storage has
\* no entry under its key, and no request was sent but by the calls of
\* onResize.
C16_FailureLeavesImage ==
    \A i \in Images :
        (/\ LoadsOf(i) # {}
         /\ \A id \in LoadsOf(i) : Failed(media.loads[id]))
            => /\ \A k \in DOMAIN media.className[i] :
                     media.className[i][k] \notin {"loading", "loaded"}
               /\ media.src[i] = <<>>
               /\ Entries(media.storage, storageKey(dataSrc(i))) = {}
               /\ Cardinality(LoadsOf(i)) <= media.rounds

\* C17: two loads of one image that both found no entry, were answered alike
\* and both wrote leave, whatever the order of their callbacks, the one entry
\* a single load writes, the image with that value as its source, "loaded"
\* and no longer "loading".
C17_ConcurrentLoadsAgree ==
    \A i \in Images : \A a, b \in LoadsOf(i) :
        LET first == media.loads[a]
            second == media.loads[b]
            key == storageKey(dataSrc(i))
            value == readAsDataURL(first.response)
        IN (/\ a < b
            /\ first.storedData = <<>> /\ second.storedData = <<>>
            /\ first.response = second.response
            /\ \A id \in LoadsOf(i) : media.loads[id].phase = "done")
               => /\ Entries(media.storage, key) = {<<key, value>>}
                  /\ media.src[i] = value
                  /\ \E k \in DOMAIN media.className[i] :
                        media.className[i][k] = "loaded"
                  /\ \A k \in DOMAIN media.className[i] :
                        media.className[i][k] # "loading"

\* Two loads of one image have both fetched the image and both written it.
C17_Witness ==
    \E i \in Images : \E a, b \in LoadsOf(i) :
        /\ a < b
        /\ media.loads[a].storedData = <<>>
        /\ media.loads[b].storedData = <<>>
        /\ media.loads[a].response = imageBlob(dataSrc(i))
        /\ media.loads[b].response = imageBlob(dataSrc(i))
        /\ media.loads[a].phase = "done"
        /\ media.loads[b].phase = "done"
        /\ media.className[i] = <<"loaded", "loaded">>

\* C15: after load, with no throttled pass pending and no animation running
\* (and no scroll event waiting), the URL fragment is the id of the selected
\* section.
C15_HashIsSelected ==
    (loaded /\ ~running /\ timeouts = 0 /\ ~scrolling /\ frames = 0
        /\ ~scrollEvent)
        => locationHash = <<"#", sectionId(selectedSection)>>

\* C18: a click on linker i with the control key changes nothing and keeps
\* the default action; without it selectedSection becomes i, the animator's
\* target becomes section i and the default action is suppressed.
C18_ClickLinker ==
    loaded =>
        \A i \in Indices :
            /\ clickLinker(Other(cur), TRUE, i) = Other(cur)
            /\ LET t == clickLinker(Begin(cur, "click", i), FALSE, i)
               IN /\ t.selectedSection = i
                  /\ t.element = i
                  /\ t.last.prevented

Abs(x) == IF x < 0 THEN 0 - x ELSE x

ClampedStep(s, t) ==
    LET top == SectionTops[t.element + 1]
        difference == top - s.pageYOffset
        step == IF difference > 0 THEN Min(Abs(difference), maxStep)
                ELSE 0 - Min(Abs(difference), maxStep)
    IN /\ Abs(t.pageYOffset - s.pageYOffset) <= maxStep
       /\ s.pageYOffset <= top => t.pageYOffset <= top
       /\ s.pageYOffset >= top => t.pageYOffset >= top
       /\ t.scrolling =>
             t.pageYOffset = Max(0, Min(MaxScroll, s.pageYOffset + step))

C22_HashWrittenWithoutId ==
    /\ idAtWrite \in {NoWrite, <<>>}
    /\ ids = AllIds
    /\ \A i \in Indices :
          LET t == setLocationHash(cur, ids[i])
          IN /\ ~t.thrown
             /\ t.idAtWrite = <<>>
             /\ t.ids = ids
             /\ t.locationHash = <<"#", ids[i]>>

\* A pass has written the fragment of a section other than the first.
C22_Witness ==
    /\ idAtWrite = <<>>
    /\ selectedSection > 0
    /\ locationHash = <<"#", ids[selectedSection]>>
    /\ ids[selectedSection] = sectionId(selectedSection)

\* C25: the throttle recovers: running, once true, becomes false again, also
\* when the throttled pass fails at the hash update of a section without an
\* element for its id.
C25_ThrottleRecovers == running ~> ~running

\* The keys that have an entry.
Keys(storage) == {e[1] : e \in storage}

\* C23: no step removes a key from the storage; the storage changes only in
\* the step that ends the reader of an image's load; an emoji's load is never
\* a request and never reads.
C23_EntriesPermanent ==
    /\ [][/\ Keys(media.storage) \subseteq Keys(media'.storage)
          /\ media'.storage # media.storage =>
                \E id \in DOMAIN media.loads :
                    /\ media.tagName[media.loads[id].image] = "IMG"
                    /\ media.loads[id].phase = "reading"
                    /\ media'.loads[id].phase = "done"]_vars
    /\ [](\A id \in DOMAIN media.loads :
             media.tagName[media.loads[id].image] # "IMG" =>
                /\ media.loads[id].phase \in {"emojiFade", "done"}
                /\ media.loads[id].response = <<>>)

\* An image's load has added its entry to the one an earlier visit left, and
\* an emoji is loaded.
C23_Witness ==
    /\ \E id \in DOMAIN media.loads :
          /\ media.tagName[media.loads[id].image] = "IMG"
          /\ media.loads[id].storedData = <<>>
          /\ media.loads[id].phase = "done"
          /\ \E key \in Keys(media.storage) :
                key # storageKey(dataSrc(media.loads[id].image))
    /\ \E id \in DOMAIN media.loads :
          /\ media.tagName[media.loads[id].image] = "SPAN"
          /\ media.loads[id].phase = "done"

\* C24: while an animation is running its target is the selected section.
C24_TargetIsSelected == scrolling => element = selectedSection

====
